---- MODULE Spec2Model ----
(***************************************************************************)
(* Model of tools/midi_to_buzzer.py and tools/simplify_header.py:          *)
(*   - the monophonic reducer (extract_monophonic),                        *)
(*   - the tick -> millisecond conversion (ticks_to_ms),                   *)
(*   - the timeline compiler (build_note_array),                           *)
(*   - the quantizer (simplify_notes, the same code in both tools).        *)
(* A note list is a sequence of pairs <<freq, duration>>.                  *)
(***************************************************************************)
EXTENDS Integers, Sequences, FiniteSets, TLC

VARIABLES
    notes,      \* simplify_notes: the argument list [(freq, dur), ...]
    unit_ms,    \* simplify_notes: the quantization unit
    min_ms,     \* simplify_notes: the minimum kept duration
    max_notes,  \* simplify_notes: the count bound
    simple,     \* outcome of simplify_notes(notes, ...)
    again,      \* outcome of simplify_notes(simple, ...)
    spc,        \* position of the quantizer run: "start", "once", "twice"
    events,     \* extract_monophonic: the sorted (abs_tick, msg) list read so far
    ticks_per_beat, \* mid.ticks_per_beat
    tempo,      \* extract_monophonic: the tempo variable
    active,     \* extract_monophonic: note -> (on_tick, velocity)
    results,    \* extract_monophonic: closed (note, start_tick, end_tick, velocity)
    timeline,   \* extract_monophonic: the returned (note, start_tick, end_tick) list
    note_array, \* main: the list build_note_array returned
    pc          \* position of the pipeline: "events", "reduced", "compiled"

svars == <<notes, unit_ms, min_ms, max_notes, simple, again, spc>>

pvars == <<events, ticks_per_beat, tempo, active, results, timeline, note_array, pc>>

vars == <<notes, unit_ms, min_ms, max_notes, simple, again, spc,
          events, ticks_per_beat, tempo, active, results, timeline, note_array, pc>>

\* tempo = 500000: the microseconds per beat before any set_tempo.
DefaultTempo == 500000

----------------------------------------------------------------------------
(* Bounds of the quantizer inputs.                                         *)

MaxLen == 3
MaxDur == 2

Freqs == {0, 440, 880}
Durs == 0..MaxDur
Units == {-1, 0, 1, 2}
MinDurs == {0, 2, 3}
Counts == {-1, 0, 1, 2, 3}

RECURSIVE SeqsUpTo(_, _)
SeqsUpTo(S, n) ==
    IF n = 0 THEN {<<>>}
    ELSE LET shorter == SeqsUpTo(S, n - 1)
         IN  shorter \cup {Append(s, x) : s \in {t \in shorter : Len(t) = n - 1}, x \in S}

NoteLists == SeqsUpTo(Freqs \X Durs, MaxLen)

----------------------------------------------------------------------------
(* Python helpers.                                                         *)

\* round(n / d) for integers n and d, d # 0: Python 3 rounds a tie to the
\* even neighbour.
PyRound(n, d) ==
    LET nn == IF d < 0 THEN -n ELSE n
        dd == IF d < 0 THEN -d ELSE d
        fl == nn \div dd
        r  == nn % dd
    IN  IF 2 * r < dd THEN fl
        ELSE IF 2 * r > dd THEN fl + 1
        ELSE IF fl % 2 = 0 THEN fl ELSE fl + 1

\* The index a slice bound k denotes in a list of length n (negative bounds
\* count from the end, all bounds are clipped to 0..n).
PySliceIndex(k, n) ==
    IF k < 0 THEN (IF n + k < 0 THEN 0 ELSE n + k)
    ELSE IF k > n THEN n ELSE k

\* s[:k]
PyPrefix(s, k) == SubSeq(s, 1, PySliceIndex(k, Len(s)))

\* s[k:]
PySuffix(s, k) == SubSeq(s, PySliceIndex(k, Len(s)) + 1, Len(s))

RECURSIVE SumDur(_)
SumDur(s) == IF s = <<>> THEN 0 ELSE s[1][2] + SumDur(Tail(s))

----------------------------------------------------------------------------
(* simplify_notes                                                          *)

\* One iteration of the merge loop.
MergeStep(merged, f, d) ==
    IF merged # <<>> /\ merged[Len(merged)][1] = f
    THEN [merged EXCEPT ![Len(merged)] = <<f, merged[Len(merged)][2] + d>>]
    ELSE Append(merged, <<f, d>>)

RECURSIVE MergeLoop(_, _, _)
MergeLoop(ns, i, merged) ==
    IF i > Len(ns) THEN merged
    ELSE MergeLoop(ns, i + 1, MergeStep(merged, ns[i][1], ns[i][2]))

\* The quantized duration d2 of one merged event; unit # 0.
Quantized(d, unit) ==
    LET q0 == PyRound(d, unit)
        q  == IF q0 <= 0 THEN 1 ELSE q0
    IN  q * unit

\* One iteration of the quantization loop, after d2 is computed.
QuantStepDrop(quant, f, d2, minimum) ==
    IF d2 < minimum
    THEN IF quant # <<>> THEN quant ELSE Append(quant, <<0, d2>>)
    ELSE Append(quant, <<f, d2>>)

QuantStep(quant, f, d2, minimum) ==
    IF d2 < minimum
    THEN IF quant # <<>>
         THEN [quant EXCEPT ![Len(quant)] = <<quant[Len(quant)][1], quant[Len(quant)][2] + d2>>]
         ELSE Append(quant, <<0, d2>>)
    ELSE Append(quant, <<f, d2>>)

RECURSIVE QuantLoop(_, _, _, _, _)
QuantLoop(merged, i, quant, unit, minimum) ==
    IF i > Len(merged) THEN quant
    ELSE QuantLoop(merged, i + 1,
                   QuantStep(quant, merged[i][1], Quantized(merged[i][2], unit), minimum),
                   unit, minimum)

\* The count bound at the end of simplify_notes.
CountBound(quant, maximum) ==
    IF Len(quant) > maximum
    THEN LET keep == PyPrefix(quant, maximum - 1)
             tail == PySuffix(quant, maximum - 1)
             tail_time == SumDur(tail)
         IN  IF keep # <<>>
             THEN [keep EXCEPT ![Len(keep)] = <<keep[Len(keep)][1], keep[Len(keep)][2] + tail_time>>]
             ELSE <<<<0, tail_time>>>>
    ELSE quant

Returned(list) == [kind |-> "list", val |-> list]
Raised(exc) == [kind |-> exc, val |-> <<>>]

\* The whole call.  With unit = 0 the division d / unit of the first
\* iteration of the quantization loop raises ZeroDivisionError.
simplify_notes(ns, unit, minimum, maximum) ==
    IF ns = <<>> THEN Returned(<<>>)
    ELSE LET merged == MergeLoop(ns, 1, <<>>)
         IN  IF unit = 0 THEN Raised("ZeroDivisionError")
             ELSE Returned(CountBound(QuantLoop(merged, 1, <<>>, unit, minimum), maximum))

NotRun == [kind |-> "none", val |-> <<>>]

\* The pipeline's variables while only the quantizer is exercised.
PipelineIdle ==
    /\ events = <<>>
    /\ ticks_per_beat = 480
    /\ tempo = DefaultTempo
    /\ active = <<>>
    /\ results = <<>>
    /\ timeline = <<>>
    /\ note_array = <<>>
    /\ pc = "idle"

SInit ==
    /\ notes \in NoteLists
    /\ unit_ms \in Units
    /\ min_ms \in MinDurs
    /\ max_notes \in Counts
    /\ simple = NotRun
    /\ again = NotRun
    /\ spc = "start"
    /\ PipelineIdle

Simplify ==
    /\ spc = "start"
    /\ simple' = simplify_notes(notes, unit_ms, min_ms, max_notes)
    /\ spc' = "once"
    /\ UNCHANGED <<notes, unit_ms, min_ms, max_notes, again>>
    /\ UNCHANGED pvars

Resimplify ==
    /\ spc = "once"
    /\ simple.kind = "list"
    /\ again' = simplify_notes(simple.val, unit_ms, min_ms, max_notes)
    /\ spc' = "twice"
    /\ UNCHANGED <<notes, unit_ms, min_ms, max_notes, simple>>
    /\ UNCHANGED pvars

SNext == Simplify \/ Resimplify

SpecSimplify == SInit /\ [][SNext]_vars

----------------------------------------------------------------------------
(* Properties of the quantizer, checked under SpecSimplify.                *)

MaxOf(a, b) == IF a > b THEN a ELSE b

ValidConfig == unit_ms > 0 /\ min_ms >= 0 /\ max_notes >= 0

Merged == MergeLoop(notes, 1, <<>>)

\* The quantized duration of a merged event as the specification words it.
RoundedDur(d) == MaxOf(1, PyRound(d, unit_ms)) * unit_ms

RECURSIVE RoundedSum(_)
RoundedSum(s) == IF s = <<>> THEN 0 ELSE RoundedDur(s[1][2]) + RoundedSum(Tail(s))

\* C1: for unit_duration > 0, minimum_duration >= 0 and maximum_count >= 0
\* the list returned by simplify_notes has at most max(maximum_count, 1)
\* entries.
C1_LengthBound ==
    (spc # "start" /\ ValidConfig)
        => (simple.kind = "list" /\ Len(simple.val) <= MaxOf(max_notes, 1))

\* C2: for a non-empty input and unit_duration > 0, minimum_duration >= 0,
\* maximum_count >= 0, the output durations sum to the sum of the quantized
\* durations max(1, round(d / unit)) * unit of the merged events: absorption
\* and the tail collapse neither lose nor add time.
C2_TimeConserved ==
    (spc # "start" /\ ValidConfig /\ notes # <<>>)
        => (simple.kind = "list" /\ SumDur(simple.val) = RoundedSum(Merged))

\* A run in which a short event was absorbed and the tail was collapsed.
C2_Witness ==
    /\ spc = "once"
    /\ ValidConfig
    /\ max_notes >= 1
    /\ simple.kind = "list"
    /\ LET quant == QuantLoop(Merged, 1, <<>>, unit_ms, min_ms)
       IN  /\ Len(quant) < Len(Merged)
           /\ Len(quant) > max_notes
           /\ Len(simple.val) < Len(quant)
    /\ SumDur(simple.val) > 0

\* C3: simplify_notes is idempotent: a second pass with the same parameters
\* returns the first pass's list entry for entry (stated for
\* unit_duration > 0, minimum_duration >= 0 and maximum_count >= 1).
C3_Idempotent ==
    (spc = "twice" /\ ValidConfig /\ max_notes >= 1) => again = simple

\* C5: with unit_duration <= 0 or maximum_count < 0 the call ends in an
\* error, for every input list; it never returns an event list.
C5_ConfigRejected ==
    (spc # "start" /\ (unit_ms <= 0 \/ max_notes < 0)) => simple.kind # "list"

\* C8: for [tone(f, d1), rest(0, d2), tone(f, d3)] with f # 0, positive
\* durations and maximum_count >= 3, the result is the single event
\* tone(f, total of the three quantized durations) exactly when the rest's
\* quantized duration is below minimum_duration, and otherwise has three
\* entries with the rest as the middle one.
C8_RestBoundary ==
    (/\ spc # "start"
     /\ ValidConfig
     /\ max_notes >= 3
     /\ Len(notes) = 3
     /\ notes[1][1] # 0 /\ notes[3][1] = notes[1][1] /\ notes[2][1] = 0
     /\ \A i \in 1..3 : notes[i][2] > 0)
        => LET f  == notes[1][1]
               q1 == RoundedDur(notes[1][2])
               q2 == RoundedDur(notes[2][2])
               q3 == RoundedDur(notes[3][2])
           IN  IF q2 < min_ms
               THEN simple = Returned(<<<<f, q1 + q2 + q3>>>>)
               ELSE /\ simple.kind = "list"
                    /\ Len(simple.val) = 3
                    /\ simple.val[2] = <<0, q2>>

----------------------------------------------------------------------------
(* The MIDI pipeline of midi_to_buzzer.py: extract_monophonic, then        *)
(* build_note_array.                                                       *)

MaxEvents == 4

Pitches == {60, 69}
Velocities == {0, 1, 2}
Tempos == {1000000}
Deltas == {0, 1}
TicksPerBeat == {1000}

Msg(t, n, v, x) == [type |-> t, note |-> n, velocity |-> v, tempo |-> x]

\* The messages a track can hold.
Msgs ==
    {Msg("note_on", n, v, 0) : n \in Pitches, v \in Velocities}
        \cup {Msg("note_off", n, 0, 0) : n \in Pitches}
        \cup {Msg("set_tempo", 0, 0, x) : x \in Tempos}

\* 440 * 2^((n - 69) / 12), rounded, for the pitches of the model.
note_to_freq(n) ==
    CASE n = 57 -> 220
      [] n = 60 -> 262
      [] n = 64 -> 330
      [] n = 69 -> 440
      [] n = 81 -> 880

\* round(ticks * tempo / ticks_per_beat / 1000)
ticks_to_ms(ticks, tmp, tpb) == PyRound(ticks * tmp, tpb * 1000)

LastTick == IF events = <<>> THEN 0 ELSE events[Len(events)][1]

IsNoteStart(msg) == msg.type = "note_on" /\ msg.velocity > 0

IsNoteEnd(msg) ==
    msg.type = "note_off" \/ (msg.type = "note_on" /\ msg.velocity = 0)

\* active[note] = (tick, velocity)
ActivePut(act, note, tick, velocity) ==
    [n \in DOMAIN act \cup {note} |-> IF n = note THEN <<tick, velocity>> ELSE act[n]]

\* active.pop(note)
ActivePop(act, note) == [n \in DOMAIN act \ {note} |-> act[n]]

\* The effect of one NoteEnd on the list of closed intervals.
CloseNoteAlways(act, res, note, abs_tick) ==
    IF note \in DOMAIN act
    THEN Append(res, <<note, act[note][1], abs_tick, act[note][2]>>)
    ELSE Append(res, <<note, abs_tick, abs_tick, 0>>)

CloseNote(act, res, note, abs_tick) ==
    IF note \in DOMAIN act
    THEN Append(res, <<note, act[note][1], abs_tick, act[note][2]>>)
    ELSE res

PInit ==
    /\ events = <<>>
    /\ ticks_per_beat \in TicksPerBeat
    /\ tempo = DefaultTempo
    /\ active = <<>>
    /\ results = <<>>
    /\ timeline = <<>>
    /\ note_array = <<>>
    /\ pc = "events"
    /\ notes = <<>>
    /\ unit_ms = 128
    /\ min_ms = 80
    /\ max_notes = 300
    /\ simple = NotRun
    /\ again = NotRun
    /\ spc = "idle"

\* One iteration of the loop over the sorted events: the next message
\* arrives dt ticks after the previous one.
ReadEvent ==
    /\ pc = "events"
    /\ Len(events) < MaxEvents
    /\ \E dt \in Deltas, msg \in Msgs :
         LET abs_tick == LastTick + dt
         IN  /\ events' = Append(events, <<abs_tick, msg>>)
             /\ tempo' = IF msg.type = "set_tempo" THEN msg.tempo ELSE tempo
             /\ IF IsNoteStart(msg)
                THEN /\ active' = ActivePut(active, msg.note, abs_tick, msg.velocity)
                     /\ results' = results
                ELSE IF IsNoteEnd(msg)
                THEN /\ active' = ActivePop(active, msg.note)
                     /\ results' = CloseNote(active, results, msg.note, abs_tick)
                ELSE UNCHANGED <<active, results>>
    /\ UNCHANGED <<ticks_per_beat, timeline, note_array, pc>>
    /\ UNCHANGED svars

RECURSIVE Descending(_)
Descending(S) ==
    IF S = {} THEN <<>>
    ELSE LET m == CHOOSE x \in S : \A y \in S : x >= y
         IN  <<m>> \o Descending(S \ {m})

\* The start ticks of the closed intervals, ascending.
RECURSIVE Ascending(_)
Ascending(S) ==
    IF S = {} THEN <<>>
    ELSE LET m == CHOOSE x \in S : \A y \in S : x <= y
         IN  <<m>> \o Ascending(S \ {m})

\* by_start[s]: the closed intervals starting at s, in the order of results.
Group(res, s) == SelectSeq(res, LAMBDA r : r[2] = s)

\* (velocity, note) compared as Python compares tuples.
KeyLess(a, b) == a[4] < b[4] \/ (a[4] = b[4] /\ a[1] < b[1])

\* max(group, key=...): the first element no other element exceeds.
ChosenLowest(group) ==
    LET i == CHOOSE k \in 1..Len(group) :
                 /\ \A j \in 1..Len(group) : ~KeyLess(group[j], group[k])
                 /\ \A j \in 1..(k - 1) : KeyLess(group[k], group[j])
    IN  group[i]

Chosen(group) ==
    LET i == CHOOSE k \in 1..Len(group) :
                 /\ \A j \in 1..Len(group) : ~KeyLess(group[k], group[j])
                 /\ \A j \in 1..(k - 1) : KeyLess(group[j], group[k])
    IN  group[i]

\* Steps 3 of extract_monophonic: one chosen interval per start tick, in
\* ascending start order, without the velocity.
Monophonic(res) ==
    LET starts == Ascending({res[i][2] : i \in 1..Len(res)})
    IN  [k \in 1..Len(starts) |->
            LET c == Chosen(Group(res, starts[k])) IN <<c[1], c[2], c[3]>>]

\* extract_monophonic returns once the events are exhausted.
Reduce ==
    /\ pc = "events"
    /\ timeline' = Monophonic(results)
    /\ pc' = "reduced"
    /\ UNCHANGED <<events, ticks_per_beat, tempo, active, results, note_array>>
    /\ UNCHANGED svars

\* One iteration of the loop of build_note_array.
CompileStep(out, current_tick, seg, tmp, tpb) ==
    LET s == seg[2]
        e == seg[3]
        rest_ms == ticks_to_ms(s - current_tick, tmp, tpb)
        gap == IF s > current_tick /\ rest_ms > 0 THEN <<<<0, rest_ms>>>> ELSE <<>>
    IN  out \o gap \o <<<<note_to_freq(seg[1]), ticks_to_ms(e - s, tmp, tpb)>>>>

RECURSIVE CompileLoop(_, _, _, _, _, _)
CompileLoop(segs, i, out, current_tick, tmp, tpb) ==
    IF i > Len(segs) THEN out
    ELSE CompileLoop(segs, i + 1, CompileStep(out, current_tick, segs[i], tmp, tpb),
                     segs[i][3], tmp, tpb)

build_note_array(segs, tmp, tpb) ==
    IF segs = <<>> THEN <<>>
    ELSE CompileLoop(segs, 1, <<>>, segs[1][2], tmp, tpb)

Compile ==
    /\ pc = "reduced"
    /\ note_array' = build_note_array(timeline, tempo, ticks_per_beat)
    /\ pc' = "compiled"
    /\ UNCHANGED <<events, ticks_per_beat, tempo, active, results, timeline>>
    /\ UNCHANGED svars

Next == ReadEvent \/ Reduce \/ Compile

Spec == PInit /\ [][Next]_vars

----------------------------------------------------------------------------
(* Properties of the pipeline, checked under Spec.                         *)

EventIdx == 1..Len(events)
Tick(i) == events[i][1]
MsgAt(i) == events[i][2]

\* The pitch of event i is sounding when event i arrives: an earlier
\* NoteStart of the pitch with no NoteEnd of it in between.
SoundingAt(i) ==
    \E j \in 1..(i - 1) :
        /\ IsNoteStart(MsgAt(j))
        /\ MsgAt(j).note = MsgAt(i).note
        /\ \A k \in (j + 1)..(i - 1) :
               ~(IsNoteEnd(MsgAt(k)) /\ MsgAt(k).note = MsgAt(i).note)

ClosingEnds == {i \in EventIdx : IsNoteEnd(MsgAt(i)) /\ SoundingAt(i)}

StartTicks == {results[i][2] : i \in 1..Len(results)}

\* Interval b does not beat interval a: lower velocity, or the same velocity
\* and a pitch that is not higher.
NotBetter(b, a) == b[4] < a[4] \/ (b[4] = a[4] /\ b[1] <= a[1])

\* C4: the reducer outputs exactly one segment for each start tick that has
\* a closed interval, and that segment is a closed interval of that start
\* tick with the maximum velocity, ties broken by the maximum pitch.
C4_ChordWinner ==
    pc # "events" =>
        /\ Len(timeline) = Cardinality(StartTicks)
        /\ \A s \in StartTicks :
             /\ Cardinality({k \in 1..Len(timeline) : timeline[k][2] = s}) = 1
             /\ \A k \in 1..Len(timeline) :
                  timeline[k][2] = s =>
                    \E i \in 1..Len(results) :
                        /\ <<results[i][1], results[i][2], results[i][3]>> = timeline[k]
                        /\ \A j \in 1..Len(results) :
                             results[j][2] = s => NotBetter(results[j], results[i])

\* A chord whose lower pitch is the louder one has been reduced to that pitch.
C4_Witness ==
    /\ pc = "reduced"
    /\ \E i, j \in 1..Len(results) :
         /\ results[i][2] = results[j][2]
         /\ results[i][1] < results[j][1]
         /\ results[i][4] > results[j][4]
         /\ \E k \in 1..Len(timeline) :
                timeline[k] = <<results[i][1], results[i][2], results[i][3]>>

\* The microseconds per beat in force at tick t: the last set_tempo at or
\* before t, DefaultTempo when there is none.
RateAt(t) ==
    LET changes == {i \in EventIdx : MsgAt(i).type = "set_tempo" /\ Tick(i) <= t}
    IN  IF changes = {} THEN DefaultTempo
        ELSE MsgAt(CHOOSE i \in changes : \A j \in changes : j <= i).tempo

\* The note array in which each tick delta is converted at the rate in
\* force at the tick where the delta starts.
RECURSIVE TempoMapArray(_, _, _)
TempoMapArray(segs, i, current_tick) ==
    IF i > Len(segs) THEN <<>>
    ELSE LET s == segs[i][2]
             e == segs[i][3]
             rest_ms == ticks_to_ms(s - current_tick, RateAt(current_tick), ticks_per_beat)
             gap == IF s > current_tick /\ rest_ms > 0 THEN <<<<0, rest_ms>>>> ELSE <<>>
             tone == <<note_to_freq(segs[i][1]), ticks_to_ms(e - s, RateAt(s), ticks_per_beat)>>
         IN  gap \o <<tone>> \o TempoMapArray(segs, i + 1, e)

\* C6: a tick delta that starts at tick t is converted at the rate of the
\* most recent set_tempo at or before t (500000 when there is none); a
\* set_tempo after t does not affect the duration of a note or rest at t.
C6_RateInForce ==
    (pc = "compiled" /\ timeline # <<>>)
        => note_array = TempoMapArray(timeline, 1, timeline[1][2])

\* C7: every event of the list build_note_array returns has a strictly
\* positive duration.
C7_PositiveDurations ==
    pc = "compiled" => \A i \in 1..Len(note_array) : note_array[i][2] > 0

\* C7, quantizer path: with unit_duration > 0 every event simplify_notes
\* returns has a strictly positive duration.
C7_SimplifyPositive ==
    (spc # "start" /\ ValidConfig /\ simple.kind = "list")
        => \A i \in 1..Len(simple.val) : simple.val[i][2] > 0

C10_EndHandling ==
    /\ [](/\ Len(results) = Cardinality(ClosingEnds)
          /\ pc # "events" =>
               /\ \A k \in 1..Len(timeline) :
                    \E i \in ClosingEnds :
                        MsgAt(i).note = timeline[k][1] /\ Tick(i) = timeline[k][3]
               /\ (Len(events) = 1 /\ IsNoteStart(MsgAt(1))) => timeline = <<>>)
    /\ [][(Len(events') = Len(events) + 1
            /\ IsNoteEnd(events'[Len(events')][2])
            /\ events'[Len(events')][2].note \notin DOMAIN active)
               => (active' = active /\ results' = results)]_vars

\* A stream with a NoteEnd of a silent pitch, a closed note and a note left
\* sounding has been reduced.
C10_Witness ==
    /\ pc = "reduced"
    /\ \E i \in EventIdx : IsNoteEnd(MsgAt(i)) /\ ~SoundingAt(i)
    /\ DOMAIN active # {}
    /\ Len(results) = 1
    /\ Len(timeline) = 1

====
